---- MODULE Spec2Model ----
(***************************************************************************)
(* Vehicle-Route-Simulator: the route playback controller of VehicleMap    *)
(* (src/src/components/VehicleMap.jsx) and the position interpolator of    *)
(* AnimatedMarker (src/src/components/AnimatedMarker.jsx).                 *)
(*                                                                         *)
(* React state is modelled by one variable per useState / useRef cell.  A  *)
(* handler is one action: the state updates it makes, the re-render, and   *)
(* the effects whose dependencies changed (cleanup of the previous effect, *)
(* then the effect body) all happen in the same step.  The browser's       *)
(* timer table (setInterval) and frame-callback table                      *)
(* (requestAnimationFrame) are explicit sets, so that a callback that was  *)
(* not cancelled stays able to fire.                                       *)
(*                                                                         *)
(* Numbers: the speed multiplier is kept in tenths (0.5x is 5), so that    *)
(* 2000 / speed is an integer division; coordinates are integers and the   *)
(* rounding of a floating-point interpolation is a bounded error.          *)
(***************************************************************************)
EXTENDS Integers, Sequences, FiniteSets, TLC

(***************************************************************************)
(* Bounds                                                                  *)
(***************************************************************************)
MaxLen == 3

\* JavaScript null in a cell that otherwise holds a message string.
NULL == "<null>"

\* The fetch has not settled yet.
Pending == [kind |-> "pending", status |-> 0, data |-> <<>>]

(***************************************************************************)
(* JavaScript values found in the fetched JSON                             *)
(***************************************************************************)
Num(n) == [t |-> "number", nan |-> FALSE, v |-> n]
NaNValue == [t |-> "number", nan |-> TRUE, v |-> 0]
StrValue == [t |-> "string", nan |-> FALSE, v |-> 0]
UndefinedValue == [t |-> "undefined", nan |-> FALSE, v |-> 0]

Point(lat, lng) == [isObject |-> TRUE, latitude |-> lat, longitude |-> lng]
NullItem == [isObject |-> FALSE, latitude |-> UndefinedValue, longitude |-> UndefinedValue]

GoodPoints == { Point(Num(0), Num(0)), Point(Num(90), Num(-180)) }

BadPoints ==
    { Point(Num(91), Num(0)),    Point(Num(-91), Num(0)),
      Point(Num(0), Num(181)),   Point(Num(0), Num(-181)),
      Point(NaNValue, Num(0)),   Point(Num(0), NaNValue),
      Point(StrValue, Num(0)),   Point(Num(0), UndefinedValue),
      NullItem }

SamplePoints == GoodPoints \cup BadPoints

Arrays == UNION { [1..n -> SamplePoints] : n \in 0..MaxLen }

\* What fetch('/dummy-route.json') followed by response.json() can produce.
Responses ==
    { [kind |-> "networkError",  status |-> 0,   data |-> <<>>],
      [kind |-> "httpError",     status |-> 404, data |-> <<>>],
      [kind |-> "httpError",     status |-> 500, data |-> <<>>],
      [kind |-> "malformedJson", status |-> 200, data |-> <<>>],
      [kind |-> "nonArray",      status |-> 200, data |-> <<>>] }
    \cup { [kind |-> "array", status |-> 200, data |-> a] : a \in Arrays }

(***************************************************************************)
(* State                                                                   *)
(***************************************************************************)
VARIABLES
    \* VehicleMap
    mounted,        \* the component is mounted
    routeData,      \* useState([])
    currentIndex,   \* useState(0)
    isPlaying,      \* useState(false)
    error,          \* useState(null): NULL or a message
    isLoading,      \* useState(true)
    speed,          \* useState(1), in tenths
    intervalRef,    \* useRef(null): 0 is null, otherwise a timer id
    timers,         \* live setInterval entries of the browser
    \* environment and history
    response,       \* what the fetch produced (Pending while in flight)
    user,           \* "present" or "away": whether commands can still come
    lastCmd,        \* the last user command and the state it was issued in
    \* AnimatedMarker
    markerMounted,  \* the component is mounted
    position,       \* the position prop, an array [lat, lng]
    markerLatLng,   \* the Leaflet marker's position (marker.getLatLng())
    lastPosition,   \* useRef(position): NoPosition is undefined
    frameRef,       \* useRef(null): 0 is null, otherwise a frame-callback id
    frames,         \* outstanding requestAnimationFrame callbacks
    completed       \* history: the two ends of the last transition that settled

ctlVars == <<mounted, routeData, currentIndex, isPlaying, error, isLoading,
             speed, intervalRef, timers, response, user, lastCmd>>

mkVars == <<markerMounted, position, markerLatLng, lastPosition, frameRef, frames,
            completed>>

vars == <<ctlVars, mkVars>>

BASE_INTERVAL_MS == 2000
SpeedOptions == {5, 10, 20, 50}

NoCmd == [op |-> "none", index |-> 0, isPlaying |-> FALSE, speed |-> 10]
Cmd(op) == [op |-> op, index |-> currentIndex, isPlaying |-> isPlaying, speed |-> speed]

(***************************************************************************)
(* loadData: validation of the fetched data                                *)
(***************************************************************************)
\* Variant: the upper bound of the longitude is not checked.
IsValidPoint_NoLngMax(p) ==
    /\ p.latitude.t = "number"
    /\ p.longitude.t = "number"
    /\ ~p.latitude.nan
    /\ ~p.longitude.nan
    /\ p.latitude.v >= -90
    /\ p.latitude.v <= 90
    /\ p.longitude.v >= -180

IsValidPoint(p) ==
    /\ p.latitude.t = "number"
    /\ p.longitude.t = "number"
    /\ ~p.latitude.nan
    /\ ~p.longitude.nan
    /\ p.latitude.v >= -90
    /\ p.latitude.v <= 90
    /\ p.longitude.v >= -180
    /\ p.longitude.v <= 180

\* data.every(point => ...): reading a property of a null item throws.
EveryThrows(data) == \E i \in 1..Len(data) : ~data[i].isObject
ValidData(data) == \A i \in 1..Len(data) : IsValidPoint(data[i])

\* The message loadData hands to setError, or NULL when the data is kept.
LoadError(resp) ==
    CASE resp.kind = "networkError"  -> "Failed to fetch"
      [] resp.kind = "httpError"     -> "HTTP error! status"
      [] resp.kind = "malformedJson" -> "Unexpected token"
      [] resp.kind = "nonArray"      -> "Route data must be an array"
      [] OTHER ->
            IF EveryThrows(resp.data) THEN "Cannot read properties of null"
            ELSE IF ~ValidData(resp.data) THEN "Invalid coordinates in route data"
            ELSE NULL

(***************************************************************************)
(* The tick effect: useEffect(..., [isPlaying, routeData.length, speed])   *)
(***************************************************************************)
\* Variant: the delay ignores the speed.
IntervalMs_Fixed(s) == BASE_INTERVAL_MS

IntervalMs(s) == (BASE_INTERVAL_MS * 10) \div s

\* Variant: the interval is never cleared.
ClearInterval_Noop(ts, ref) == ts

\* clearInterval(intervalRef.current) guarded by if (intervalRef.current)
ClearInterval(ts, ref) == IF ref # 0 THEN { t \in ts : t.id # ref } ELSE ts

\* The id setInterval returns: one that no live timer and no stored
\* reference holds (the browser never reuses an id).
FreshTimerId(ts, ref) ==
    CHOOSE i \in 1..(Cardinality(ts) + 2) :
        /\ i # ref
        /\ \A t \in ts : t.id # i
        /\ \A j \in 1..(i - 1) : j = ref \/ \E t \in ts : t.id = j

\* Variant: the interval is started whether or not playback is on.
StartsInterval_Always(playing, len) == len > 0

\* The effect body: the interval's callback closes over routeData.length.
StartsInterval(playing, len) == playing /\ len > 0

\* Variant: the previous interval is cleared only when a new one is started.
TickEffect_NoCleanupOnStop(ts, ref, oldDeps, newDeps) ==
    IF oldDeps = newDeps THEN <<ts, ref>>
    ELSE IF StartsInterval(newDeps[1], newDeps[2])
         THEN LET cleared == ClearInterval(ts, ref)
                  id == FreshTimerId(cleared, ref)
              IN  << cleared \cup { [id |-> id,
                                     delay |-> IntervalMs(newDeps[3]),
                                     len |-> newDeps[2]] },
                     id >>
         ELSE <<ts, ref>>

\* Cleanup of the previous effect, then the body, when a dependency changed.
\* Yields <<timers, intervalRef>>.
TickEffect(ts, ref, oldDeps, newDeps) ==
    IF oldDeps = newDeps THEN <<ts, ref>>
    ELSE LET cleared == ClearInterval(ts, ref)
         IN  IF StartsInterval(newDeps[1], newDeps[2])
             THEN LET id == FreshTimerId(cleared, ref)
                  IN  << cleared \cup { [id |-> id,
                                         delay |-> IntervalMs(newDeps[3]),
                                         len |-> newDeps[2]] },
                         id >>
             ELSE <<cleared, ref>>

Deps == <<isPlaying, Len(routeData), speed>>

\* Commit of a render: new values of the dependencies, then the effect.
Commit(playing, len, s) ==
    LET r == TickEffect(timers, intervalRef, Deps, <<playing, len, s>>)
    IN  /\ timers' = r[1]
        /\ intervalRef' = r[2]

(***************************************************************************)
(* Rendering: which branch of the JSX is shown                             *)
(***************************************************************************)
HasCurrentPosition == currentIndex + 1 \in 1..Len(routeData)

ControlsVisible ==
    /\ mounted
    /\ ~isLoading
    /\ error = NULL
    /\ HasCurrentPosition

(***************************************************************************)
(* AnimatedMarker: positions and interpolation                             *)
(***************************************************************************)
DEFAULT_DURATION == 2000
TimeStep == 1000

NoPosition == <<>>
MarkerPositions == { <<0, 0>>, <<4, 0>>, <<4, 2>> }

\* L.latLng([lat, lng])
LatLng(pos) == [lat |-> pos[1], lng |-> pos[2]]

Min(a, b) == IF a < b THEN a ELSE b
Max(a, b) == IF a > b THEN a ELSE b

\* progress = Math.min(1, elapsedTime / duration), as a numerator over duration
Progress(elapsedTime, duration) == Min(duration, elapsedTime)

\* start + (end - start) * progress in floating point: the exact value, or a
\* neighbour of it between the two ends when the arithmetic rounds.
Lerp(start, end, prog, duration) ==
    LET exact == start + ((end - start) * prog) \div duration
        lo == Min(start, end)
        hi == Max(start, end)
    IN  IF prog = 0 \/ start = end THEN {exact}
        ELSE { v \in {exact - 1, exact, exact + 1} : v >= lo /\ v <= hi }

\* Variant: the frame callback is never cancelled.
CancelFrame_Noop(fs, ref) == fs

\* cancelAnimationFrame(frameRef.current) guarded by if (frameRef.current)
CancelFrame(fs, ref) == IF ref # 0 THEN { f \in fs : f.id # ref } ELSE fs

\* The id requestAnimationFrame returns.
FreshFrameId(fs, ref) ==
    CHOOSE i \in 1..(Cardinality(fs) + 2) :
        /\ i # ref
        /\ \A f \in fs : f.id # i
        /\ \A j \in 1..(i - 1) : j = ref \/ \E f \in fs : f.id = j

\* The closure of animate: startLatLng, endLatLng, position and startTime
\* (kept as the time elapsed since startTime).
Animation(id, start, end, pos, elapsed) ==
    [id |-> id, startLatLng |-> start, endLatLng |-> end, position |-> pos,
     elapsed |-> elapsed]

NoAnimation == [startLatLng |-> LatLng(<<0, 0>>), endLatLng |-> LatLng(<<0, 0>>)]

\* The body of the effect for a non-null position and an attached marker.
\* Yields <<markerLatLng, lastPosition, frameRef, frames>>.
MarkerEffect(pos, marker, last, ref, fs) ==
    IF last = NoPosition
    THEN <<LatLng(pos), pos, ref, fs>>
    ELSE LET cancelled == CancelFrame(fs, ref)
             id == FreshFrameId(cancelled, ref)
         IN  <<marker, last, id,
               cancelled \cup { Animation(id, marker, LatLng(pos), pos, 0) }>>

\* Variant: the end of the transition is not assigned when progress is 1.
AnimateLatLng_NoSnap(interpolated, f, prog) == interpolated

\* The position the marker has when animate returns: the interpolated one
\* while the transition runs, the end of the transition once progress is 1.
AnimateLatLng(interpolated, f, prog) ==
    IF prog < DEFAULT_DURATION THEN interpolated ELSE f.endLatLng

(***************************************************************************)
(* Initial state: VehicleMap mounted with the fetch in flight, no marker   *)
(***************************************************************************)
CtlInit ==
    /\ mounted = TRUE
    /\ routeData = <<>>
    /\ currentIndex = 0
    /\ isPlaying = FALSE
    /\ error = NULL
    /\ isLoading = TRUE
    /\ speed = 10
    /\ intervalRef = 0
    /\ timers = {}
    /\ response = Pending
    /\ user = "present"
    /\ lastCmd = NoCmd

MarkerUnmounted ==
    /\ markerMounted = FALSE
    /\ position = NoPosition
    /\ markerLatLng = LatLng(<<0, 0>>)
    /\ lastPosition = NoPosition
    /\ frameRef = 0
    /\ frames = {}
    /\ completed = NoAnimation

Init == CtlInit /\ MarkerUnmounted

(***************************************************************************)
(* Actions of VehicleMap                                                   *)
(***************************************************************************)
\* The fetch settles and the rest of loadData runs.
LoadData ==
    /\ mounted
    /\ isLoading
    /\ \E resp \in Responses :
          LET msg == LoadError(resp)
              data == IF msg = NULL THEN resp.data ELSE routeData
          IN  /\ response' = resp
              /\ routeData' = data
              /\ error' = msg
              /\ isLoading' = FALSE
              /\ Commit(isPlaying, Len(data), speed)
    /\ UNCHANGED <<mounted, currentIndex, isPlaying, speed, user, lastCmd>>
    /\ UNCHANGED mkVars

TogglePlay ==
    /\ ControlsVisible
    /\ user = "present"
    /\ isPlaying' = ~isPlaying
    /\ Commit(~isPlaying, Len(routeData), speed)
    /\ lastCmd' = Cmd(IF isPlaying THEN "pause" ELSE "play")
    /\ UNCHANGED <<mounted, routeData, currentIndex, error, isLoading, speed,
                   response, user>>
    /\ UNCHANGED mkVars

resetSimulation ==
    /\ ControlsVisible
    /\ user = "present"
    /\ isPlaying' = FALSE
    /\ currentIndex' = 0
    /\ Commit(FALSE, Len(routeData), speed)
    /\ lastCmd' = Cmd("reset")
    /\ UNCHANGED <<mounted, routeData, error, isLoading, speed, response, user>>
    /\ UNCHANGED mkVars

SetSpeed ==
    /\ ControlsVisible
    /\ user = "present"
    /\ \E s \in SpeedOptions :
          /\ speed' = s
          /\ Commit(isPlaying, Len(routeData), s)
    /\ lastCmd' = Cmd("speed")
    /\ UNCHANGED <<mounted, routeData, currentIndex, isPlaying, error,
                   isLoading, response, user>>
    /\ UNCHANGED mkVars

\* Variant: the index is advanced without looking at the route length.
TickUpdate_NoBound(prevIndex, playing, len) == <<prevIndex + 1, playing>>

\* Variant: playback is not switched off at the end of the route.
TickUpdate_NoStop(prevIndex, playing, len) ==
    IF prevIndex >= len - 1 THEN <<prevIndex, playing>>
    ELSE <<prevIndex + 1, playing>>

\* Variant: the end of the route is tested with > instead of >=.
TickUpdate_OffByOne(prevIndex, playing, len) ==
    IF prevIndex > len - 1 THEN <<prevIndex, FALSE>>
    ELSE <<prevIndex + 1, playing>>

\* The updater the interval callback hands to setCurrentIndex.
\* Yields <<currentIndex, isPlaying>>.
TickUpdate(prevIndex, playing, len) ==
    IF prevIndex >= len - 1 THEN <<prevIndex, FALSE>>
    ELSE <<prevIndex + 1, playing>>

\* One firing of the live interval t.
TickOf(t) ==
    LET u == TickUpdate(currentIndex, isPlaying, t.len)
    IN  /\ mounted
        /\ currentIndex' = u[1]
        /\ isPlaying' = u[2]
        /\ Commit(u[2], Len(routeData), speed)
        /\ UNCHANGED <<mounted, routeData, error, isLoading, speed, response,
                       user, lastCmd>>
        /\ UNCHANGED mkVars

Tick == \E t \in timers : TickOf(t)

\* Unmount: the cleanup of the tick effect runs.  Leaving the page is a
\* command of the user.
Unmount ==
    /\ mounted
    /\ user = "present"
    /\ mounted' = FALSE
    /\ timers' = ClearInterval(timers, intervalRef)
    /\ UNCHANGED <<routeData, currentIndex, isPlaying, error, isLoading, speed,
                   intervalRef, response, user, lastCmd>>
    /\ UNCHANGED mkVars

\* The user stops issuing commands.
UserLeaves ==
    /\ user = "present"
    /\ user' = "away"
    /\ UNCHANGED <<mounted, routeData, currentIndex, isPlaying, error,
                   isLoading, speed, intervalRef, timers, response, lastCmd>>
    /\ UNCHANGED mkVars

Next ==
    \/ LoadData
    \/ TogglePlay
    \/ resetSimulation
    \/ SetSpeed
    \/ Tick
    \/ Unmount
    \/ UserLeaves

Spec == Init /\ [][Next]_vars

\* setInterval keeps firing while the interval is live.
FairSpec == Spec /\ WF_vars(Tick)

(***************************************************************************)
(* Actions of AnimatedMarker.  The parent is any component that renders    *)
(* the marker with a position and renders it again with a new array.       *)
(***************************************************************************)
\* First render and commit: the Marker is created at the position prop,
\* lastPosition is initialised with it, and the effect runs.
MountMarker ==
    /\ ~markerMounted
    /\ position = NoPosition
    /\ \E pos \in MarkerPositions :
          LET r == MarkerEffect(pos, LatLng(pos), pos, frameRef, frames)
          IN  /\ position' = pos
              /\ markerLatLng' = r[1]
              /\ lastPosition' = r[2]
              /\ frameRef' = r[3]
              /\ frames' = r[4]
    /\ markerMounted' = TRUE
    /\ UNCHANGED completed
    /\ UNCHANGED ctlVars

\* The parent renders again: the position prop is a new array, so the
\* cleanup of the previous effect runs and then the effect.
Rerender ==
    /\ markerMounted
    /\ \E pos \in MarkerPositions :
          LET cleaned == CancelFrame(frames, frameRef)
              r == MarkerEffect(pos, markerLatLng, lastPosition, frameRef, cleaned)
          IN  /\ position' = pos
              /\ markerLatLng' = r[1]
              /\ lastPosition' = r[2]
              /\ frameRef' = r[3]
              /\ frames' = r[4]
    /\ UNCHANGED <<markerMounted, completed>>
    /\ UNCHANGED ctlVars

\* The browser runs the frame callback f: animate(currentTime).
FrameOf(f) ==
    LET prog == Progress(f.elapsed, DEFAULT_DURATION)
    IN  /\ markerMounted
        /\ \E lat \in Lerp(f.startLatLng.lat, f.endLatLng.lat, prog, DEFAULT_DURATION),
              lng \in Lerp(f.startLatLng.lng, f.endLatLng.lng, prog, DEFAULT_DURATION) :
              markerLatLng' = AnimateLatLng(LatLng(<<lat, lng>>), f, prog)
        /\ IF prog < DEFAULT_DURATION
           THEN LET rest == frames \ {f}
                    id == FreshFrameId(rest, frameRef)
                IN  /\ frames' = rest \cup { [f EXCEPT !.id = id] }
                    /\ frameRef' = id
                    /\ UNCHANGED <<lastPosition, completed>>
           ELSE /\ frames' = frames \ {f}
                /\ lastPosition' = f.position
                /\ completed' = [startLatLng |-> f.startLatLng, endLatLng |-> f.endLatLng]
                /\ UNCHANGED frameRef
        /\ UNCHANGED <<markerMounted, position>>
        /\ UNCHANGED ctlVars

Frame == \E f \in frames : FrameOf(f)

\* Wall-clock time passes for every outstanding callback.
TimePasses ==
    /\ \E f \in frames : f.elapsed <= DEFAULT_DURATION
    /\ frames' = { [f EXCEPT !.elapsed = IF f.elapsed <= DEFAULT_DURATION
                                         THEN f.elapsed + TimeStep
                                         ELSE f.elapsed] : f \in frames }
    /\ UNCHANGED <<markerMounted, position, markerLatLng, lastPosition, frameRef,
                   completed>>
    /\ UNCHANGED ctlVars

\* Unmount: the cleanup of the effect runs.
UnmountMarker ==
    /\ markerMounted
    /\ markerMounted' = FALSE
    /\ frames' = CancelFrame(frames, frameRef)
    /\ UNCHANGED <<position, markerLatLng, lastPosition, frameRef, completed>>
    /\ UNCHANGED ctlVars

MarkerNext ==
    \/ MountMarker
    \/ Rerender
    \/ Frame
    \/ TimePasses
    \/ UnmountMarker

MarkerSpec == Init /\ [][MarkerNext]_vars

(***************************************************************************)
(* Properties of the route playback controller                             *)
(***************************************************************************)
LastIndex == Len(routeData) - 1

\* C1: on a loaded non-empty route, currentIndex is an integer with
\* 0 <= currentIndex <= len(route)-1 in every reachable state.
C1_IndexInRange ==
    Len(routeData) > 0 => currentIndex \in 0..LastIndex

\* The index has been advanced by ticks up to the last point of a route of
\* full length, and the interval is still live.
C1_Witness ==
    /\ Len(routeData) = MaxLen
    /\ currentIndex = LastIndex
    /\ isPlaying
    /\ timers # {}

PlayedFromStoppedAndLeft ==
    /\ lastCmd.op = "play"
    /\ lastCmd.index = 0
    /\ user = "away"
    /\ mounted

StoppedAtEnd ==
    /\ ~isPlaying
    /\ currentIndex = LastIndex
    /\ timers = {}

\* C2: after play() from STOPPED with no further user command, ticks that
\* keep firing lead to isPlaying = false at currentIndex = len(route)-1 with
\* no live tick source, and the controller stays there.
C2_PlayRunsToEnd ==
    [](PlayedFromStoppedAndLeft => <>[]StoppedAtEnd)

C2_Witness ==
    /\ PlayedFromStoppedAndLeft
    /\ StoppedAtEnd
    /\ Len(routeData) = MaxLen

\* C3 as stated: once the tick that moves currentIndex to len(route)-1 has
\* been processed, isPlaying is false.
C3_Original ==
    [][(Tick /\ currentIndex' # currentIndex /\ currentIndex' = LastIndex)
          => ~isPlaying']_vars

\* C3 as amended: the tick that fires while currentIndex is already
\* len(route)-1 leaves the index where it is, sets isPlaying to false and
\* leaves no live tick source; a tick that advances the index leaves
\* isPlaying as it was.
C3_TickAtLastIndexStops ==
    [][Tick =>
          IF currentIndex = LastIndex
          THEN currentIndex' = currentIndex /\ ~isPlaying' /\ timers' = {}
          ELSE currentIndex' = currentIndex + 1 /\ isPlaying' = isPlaying]_vars

\* Playback was running when the speed was changed, nobody paused it, and
\* it is off at the last point of a route with several points.
C3_Witness ==
    /\ lastCmd.op = "speed"
    /\ lastCmd.isPlaying
    /\ Len(routeData) >= 2
    /\ currentIndex = LastIndex
    /\ ~isPlaying

\* C4: reset() in any state yields currentIndex = 0 and isPlaying = false
\* with no live tick source, and until the next command no tick changes
\* currentIndex.
C4_ResetStops ==
    lastCmd.op = "reset" =>
        /\ currentIndex = 0
        /\ ~isPlaying
        /\ timers = {}

C4_Witness ==
    /\ lastCmd.op = "reset"
    /\ lastCmd.isPlaying
    /\ lastCmd.index > 0
    /\ lastCmd.speed = 50
    /\ currentIndex = 0

\* C5: pause() while PLAYING leaves currentIndex and speedMultiplier
\* unchanged, sets isPlaying to false and cancels the tick source, so no
\* tick changes currentIndex until the next command.
C5_PauseKeepsIndex ==
    lastCmd.op = "pause" =>
        /\ ~isPlaying
        /\ currentIndex = lastCmd.index
        /\ speed = lastCmd.speed
        /\ timers = {}

C5_Witness ==
    /\ lastCmd.op = "pause"
    /\ lastCmd.isPlaying
    /\ lastCmd.index > 0
    /\ lastCmd.index < LastIndex
    /\ currentIndex = lastCmd.index

\* C6: setSpeed while STOPPED or PAUSED changes only speedMultiplier: no
\* tick source is created and currentIndex and isPlaying stay as they were
\* until the next command.
C6_SpeedWhileIdle ==
    /\ [][(SetSpeed /\ ~isPlaying) =>
             UNCHANGED <<routeData, currentIndex, isPlaying, error, isLoading,
                         timers, intervalRef>>]_vars
    /\ []((lastCmd.op = "speed" /\ ~lastCmd.isPlaying) =>
             /\ ~isPlaying
             /\ currentIndex = lastCmd.index
             /\ timers = {})

C6_Witness ==
    /\ lastCmd.op = "speed"
    /\ ~lastCmd.isPlaying
    /\ lastCmd.index > 0
    /\ speed # lastCmd.speed
    /\ intervalRef # 0

NonNumeric(v) == v.t # "number" \/ v.nan
OutOfBounds(v, lo, hi) == v.t = "number" /\ ~v.nan /\ (v.v < lo \/ v.v > hi)

BadCoordinates(pt) ==
    \/ NonNumeric(pt.latitude)
    \/ NonNumeric(pt.longitude)
    \/ OutOfBounds(pt.latitude, -90, 90)
    \/ OutOfBounds(pt.longitude, -180, 180)

LoadFailed ==
    /\ ~isLoading
    /\ \/ response.kind \in {"networkError", "httpError", "malformedJson", "nonArray"}
       \/ /\ response.kind = "array"
          /\ \E i \in 1..Len(response.data) : BadCoordinates(response.data[i])

\* C7: when the load fails or any single point has a non-numeric or
\* out-of-bounds coordinate, the route stays empty, an error message is set
\* and playback is never started: no tick source is ever created and
\* currentIndex stays 0.
C7_LoadFailureKeepsNothing ==
    LoadFailed =>
        /\ routeData = <<>>
        /\ error # NULL
        /\ currentIndex = 0
        /\ ~isPlaying
        /\ timers = {}
        /\ intervalRef = 0

\* An array of full length whose only bad point is the last one was refused.
C7_Witness ==
    /\ LoadFailed
    /\ response.kind = "array"
    /\ Len(response.data) = MaxLen
    /\ \A i \in 1..(MaxLen - 1) : ~BadCoordinates(response.data[i])
    /\ error # NULL
    /\ user = "away"

\* C9: at most one playback tick source is live; it is live only while
\* isPlaying is true on a non-empty route with the component mounted; its
\* interval is 2000 ms / speedMultiplier; setSpeed while PLAYING replaces
\* the source by a new one.
C9_OneTickSource ==
    /\ [](/\ Cardinality(timers) <= 1
          /\ timers # {} => (isPlaying /\ Len(routeData) > 0 /\ mounted)
          /\ \A t \in timers : t.delay * speed = BASE_INTERVAL_MS * 10)
    /\ [][(SetSpeed /\ isPlaying /\ speed' # speed) =>
             (timers' # {} /\ timers' \cap timers = {}
              /\ \A t \in timers : \A u \in timers' : u.id # t.id)]_vars

C9_Witness ==
    /\ lastCmd.op = "speed"
    /\ lastCmd.isPlaying
    /\ lastCmd.speed = 50
    /\ speed = 5
    /\ \E t \in timers : t.delay = 4000

(***************************************************************************)
(* Properties of the position interpolator                                 *)
(***************************************************************************)
\* C8: when a transition completes (progress >= 1 and the callback was not
\* cancelled), the marker is at the exact target coordinate and the last
\* settled position is that target.
C8_SettlesOnExactTarget ==
    [][\A f \in frames :
          (FrameOf(f) /\ f.elapsed >= DEFAULT_DURATION) =>
              /\ markerLatLng' = LatLng(position)
              /\ lastPosition' = position]_vars

\* A transition between two different coordinates has settled.
C8_Witness ==
    /\ completed.startLatLng.lat # completed.endLatLng.lat
    /\ completed.startLatLng.lng # completed.endLatLng.lng
    /\ frames = {}
    /\ markerLatLng = completed.endLatLng
    /\ lastPosition = position

SettledCoordinates == { LatLng(pos) : pos \in MarkerPositions }

C11_FirstPositionJumps ==
    [][(position = NoPosition /\ position' # NoPosition) =>
          /\ markerLatLng' = LatLng(position')
          /\ frames' = {}
          /\ frameRef' = 0]_vars

====
